---- MODULE Spec2Model ----
(***************************************************************************)
(* A model of the truncation engine of speedyf                            *)
(* (src/src/operations/truncation.ts).                                    *)
(*                                                                         *)
(* Spec      : one call of truncateFile, from the dispatcher through the   *)
(*             fast path, the binary search over the kept unit count and   *)
(*             the single-unit fallback, for every format.                 *)
(* SpecZip   : truncateDocxToParagraphs applied to a DOCX package and      *)
(*             truncatePptxToSlides applied to a PPTX package.             *)
(* SpecLive  : the searches of Spec under weak fairness of their steps.    *)
(* SpecPair  : two calls of truncateFile on one byte array, interleaved.   *)
(* SpecStream: the truncateStream handler (src/src/truncateStream.ts).     *)
(* SpecBody  : the truncation of a DOCX body of many paragraphs and tables.*)
(*                                                                         *)
(* The size of a rebuilt PDF or OOXML document is decided by pdf-lib and   *)
(* JSZip: in Spec it is an arbitrary function of the kept unit count k,    *)
(* drawn with the document in Init.                                        *)
(***************************************************************************)
EXTENDS Integers, Sequences, FiniteSets, TLC

VARIABLES
    fileBytes,   \* the document handed to truncateFile; primary: an OOXML package
                 \* holds its primary part (word/document.xml, ppt/presentation.xml)
    mimeType,    \* its declared media type
    options,     \* TruncationOptions; an absent field is <<>>, a present one <<v>>
    pc,          \* where the call stands
    low,         \* binary search: lower end
    high,        \* binary search: upper end
    best,        \* bestBytes / bestResult: <<>> for null, <<k>> for the rebuild of k
    rebuilds,    \* the unit counts rebuilt so far, in order
    result,      \* what the call returned or threw
    zip,         \* the OOXML package handed to the container editor
    maxArg,      \* the unit count handed to the container editor
    outZip,      \* the package the container editor produced
    reader,      \* truncateStream: the reader of the request body
    chunks,      \* truncateStream: the lengths of the chunks read so far
    totalSize,   \* truncateStream: the number of bytes read so far
    response     \* truncateStream: the HTTP status answered, 0 before the answer

vars == <<fileBytes, mimeType, options, pc, low, high, best, rebuilds, result,
          zip, maxArg, outZip, reader, chunks, totalSize, response>>

streamVars == <<reader, chunks, totalSize, response>>

zipVars == <<zip, maxArg, outZip, streamVars>>

(***************************************************************************)
(* Bounds of the model.                                                    *)
(***************************************************************************)
MaxUnits == 3
MaxSize == 3
MaxTextLen == 3
MaxPerPage == 2

(***************************************************************************)
(* Program constants.                                                      *)
(***************************************************************************)
DEFAULT_MAX_SIZE_BYTES == 50 * 1024 * 1024
DEFAULT_MAX_PAGES == 100
DEFAULT_PARAGRAPHS_PER_PAGE == 15
SearchWindow == 1024

PDF_MIME_TYPES == {"application/pdf"}

IMAGE_MIME_TYPES ==
    {"image/jpeg", "image/png", "image/avif", "image/tiff", "image/gif",
     "image/heic", "image/heif", "image/bmp", "image/webp"}

TEXT_MIME_TYPES ==
    {"application/xml", "application/x-troff-man", "application/x-ipynb+json"}

DocxMime == "application/vnd.openxmlformats-officedocument.wordprocessingml.document"
PptxMime == "application/vnd.openxmlformats-officedocument.presentationml.presentation"

BINARY_DOCUMENT_MIME_TYPES ==
    {DocxMime, PptxMime, "application/epub+zip", "application/rtf",
     "application/vnd.oasis.opendocument.text", "application/x-fictionbook+xml"}

\* "\n\n[Content truncated due to size limits...]" as UTF-8 bytes
truncationNote ==
    <<10, 10, 91, 67, 111, 110, 116, 101, 110, 116, 32, 116, 114, 117, 110, 99,
      97, 116, 101, 100, 32, 100, 117, 101, 32, 116, 111, 32, 115, 105, 122,
      101, 32, 108, 105, 109, 105, 116, 115, 46, 46, 46, 93>>

(***************************************************************************)
(* Helpers.                                                                *)
(***************************************************************************)
Min(a, b) == IF a <= b THEN a ELSE b
Max(a, b) == IF a >= b THEN a ELSE b

\* a slip in the probe: the search walks up from the lower end, one unit a step
MidLinear(lo, hi) == lo

\* Math.floor((low + high) / 2) for low + high >= 0
Mid(lo, hi) == (lo + hi) \div 2

Opt(S) == {<<>>} \cup {<<v>> : v \in S}
OrDefault(o, d) == IF o = <<>> THEN d ELSE o[1]

\* TypedArray.prototype.slice(begin, end): a negative index counts from the end
JsIndex(i, n) == IF i < 0 THEN Max(n + i, 0) ELSE Min(i, n)
JsSlice(s, begin, end) ==
    LET b == JsIndex(begin, Len(s))
        e == JsIndex(end, Len(s))
    IN  IF e <= b THEN <<>> ELSE SubSeq(s, b + 1, e)

\* s[i] with JavaScript's zero-based index; undefined (here -1) out of range
JsAt(s, i) == IF i >= 0 /\ i < Len(s) THEN s[i + 1] ELSE 0 - 1

(***************************************************************************)
(* Values.                                                                 *)
(***************************************************************************)
NoError == [name |-> "", actualSize |-> 0, maxSize |-> 0, mimeType |-> ""]
NoBytes == [src |-> "none", k |-> 0, data |-> <<>>]
InputBytes == [src |-> "input", k |-> 0, data |-> <<>>]
RebuiltBytes(k) == [src |-> "rebuild", k |-> k, data |-> <<>>]
BuiltBytes(d) == [src |-> "built", k |-> 0, data |-> d]

NoResult ==
    [status |-> "none", bytes |-> NoBytes, wasTruncated |-> FALSE,
     originalSize |-> 0, finalSize |-> 0, error |-> NoError]

\* The size of the rebuild that keeps k units: pages 0..k-1 copied into a new
\* PDF, truncatePptxToSlides(fileBytes, k), truncateDocxToParagraphs(fileBytes, k).
\* A rebuild asked for more units than the document has keeps them all.
RebuildSize(k) == fileBytes.rebuilt[Min(Max(k, 1), Len(fileBytes.rebuilt))]

\* bytes.length of a byte array of the model
BytesLength(b) ==
    CASE b.src = "input" -> fileBytes.size
      [] b.src = "rebuild" -> RebuildSize(b.k)
      [] b.src = "built" -> Len(b.data)
      [] OTHER -> 0

\* the content of a byte array of the model that holds text
BytesData(b) == IF b.src = "input" THEN fileBytes.data ELSE b.data

\* the number of units (pages, slides, body paragraphs) a byte array holds
UnitsOf(b) ==
    CASE b.src = "input" -> fileBytes.totalUnits
      [] b.src = "rebuild" -> Min(b.k, fileBytes.totalUnits)
      [] OTHER -> 0

Returned(bytes, wasTruncated, originalSize, finalSize) ==
    [status |-> "ok", bytes |-> bytes, wasTruncated |-> wasTruncated,
     originalSize |-> originalSize, finalSize |-> finalSize, error |-> NoError]

Thrown(name, actualSize, maxSize, mime) ==
    [status |-> "error", bytes |-> NoBytes, wasTruncated |-> FALSE,
     originalSize |-> 0, finalSize |-> 0,
     error |-> [name |-> name, actualSize |-> actualSize, maxSize |-> maxSize,
                mimeType |-> mime]]

(***************************************************************************)
(* truncateFile: the dispatcher.                                           *)
(***************************************************************************)
\* a slip in the order of the tests: the binary document types before DOCX and PPTX
RouteBinaryFirst(mime) ==
    IF mime \in PDF_MIME_TYPES THEN "pdf"
    ELSE IF mime \in TEXT_MIME_TYPES THEN "text"
    ELSE IF mime \in IMAGE_MIME_TYPES THEN "validate"
    ELSE IF mime \in BINARY_DOCUMENT_MIME_TYPES THEN "validate"
    ELSE IF mime = PptxMime THEN "pptx"
    ELSE IF mime = DocxMime THEN "docx"
    ELSE "validate"

\* the branch truncateFile takes, decided in the order of its if statements
Route(mime) ==
    IF mime \in PDF_MIME_TYPES THEN "pdf"
    ELSE IF mime \in TEXT_MIME_TYPES THEN "text"
    ELSE IF mime \in IMAGE_MIME_TYPES THEN "validate"
    ELSE IF mime = PptxMime THEN "pptx"
    ELSE IF mime = DocxMime THEN "docx"
    ELSE IF mime \in BINARY_DOCUMENT_MIME_TYPES THEN "validate"
    ELSE "validate"

maxPagesOf(opts) == OrDefault(opts.maxPages, DEFAULT_MAX_PAGES)
maxSizeBytesOf(opts) == OrDefault(opts.maxSizeBytes, DEFAULT_MAX_SIZE_BYTES)

(***************************************************************************)
(* validateFileSize.                                                       *)
(***************************************************************************)
\* a slip in the comparison: a document of exactly the limit is refused
validateFileSizeInclusive(size, mime, maxSizeBytes) ==
    IF size >= maxSizeBytes
    THEN Thrown("FileTooLargeError", size, maxSizeBytes, mime)
    ELSE Returned(InputBytes, FALSE, size, size)

validateFileSize(size, mime, maxSizeBytes) ==
    IF size > maxSizeBytes
    THEN Thrown("FileTooLargeError", size, maxSizeBytes, mime)
    ELSE Returned(InputBytes, FALSE, size, size)

(***************************************************************************)
(* truncateTextFile.                                                       *)
(***************************************************************************)
IsBreakByte(byte) == byte = 10 \/ byte = 13 \/ byte = 32

\* the for loop of truncateTextFile: i runs from its start down to searchStart,
\* and the first index it meets that holds a newline, carriage return or space
\* (the greatest one of the range) decides the break point
FindBreakPoint(truncatedBytes, i, searchStart, bestBreakPoint) ==
    LET hits == {j \in searchStart..i : IsBreakByte(JsAt(truncatedBytes, j))}
    IN  IF hits = {} THEN bestBreakPoint
        ELSE (CHOOSE j \in hits : \A h \in hits : h <= j) + 1

\* the bytes kept before the notice
TextCut(data, maxSizeBytes) ==
    LET truncatedBytes == JsSlice(data, 0, maxSizeBytes)
        searchRange == Min(SearchWindow, maxSizeBytes)
        searchStart == maxSizeBytes - searchRange
        bestBreakPoint ==
            FindBreakPoint(truncatedBytes, maxSizeBytes - 1, searchStart, maxSizeBytes)
    IN  JsSlice(truncatedBytes, 0, bestBreakPoint)

\* a slip in the returned record: finalSize measured before the notice is appended
truncateTextFileSizeBeforeNote(data, maxSizeBytes) ==
    LET originalSize == Len(data)
    IN  IF Len(data) <= maxSizeBytes
        THEN Returned(InputBytes, FALSE, originalSize, Len(data))
        ELSE LET truncatedBytes == TextCut(data, maxSizeBytes)
             IN  Returned(BuiltBytes(truncatedBytes \o truncationNote), TRUE,
                          originalSize, Len(truncatedBytes))

truncateTextFile(data, maxSizeBytes) ==
    LET originalSize == Len(data)
    IN  IF Len(data) <= maxSizeBytes
        THEN Returned(InputBytes, FALSE, originalSize, Len(data))
        ELSE LET finalBytes == TextCut(data, maxSizeBytes) \o truncationNote
             IN  Returned(BuiltBytes(finalBytes), TRUE, originalSize, Len(finalBytes))

(***************************************************************************)
(* truncatePdfFile.                                                        *)
(***************************************************************************)
PdfWithinLimits(totalPages, size, maxPages, maxSizeBytes) ==
    totalPages <= maxPages /\ size <= maxSizeBytes

\* a slip in the comparison of the rebuilt size: a rebuild of exactly the limit is refused
PdfFitsStrict(size, maxSizeBytes) == size < maxSizeBytes

PdfFits(size, maxSizeBytes) == size <= maxSizeBytes

\* targetPageCount
PdfHigh(totalPages, maxPages) == Min(totalPages, maxPages)

TruncatePdfStart ==
    /\ pc = "call"
    /\ Route(mimeType) = "pdf"
    /\ LET maxPages == maxPagesOf(options)
           maxSizeBytes == maxSizeBytesOf(options)
           totalPages == fileBytes.totalUnits
       IN  IF PdfWithinLimits(totalPages, fileBytes.size, maxPages, maxSizeBytes)
           THEN /\ result' = Returned(InputBytes, FALSE, fileBytes.size, fileBytes.size)
                /\ pc' = "done"
                /\ UNCHANGED <<low, high, best>>
           ELSE /\ low' = 1
                /\ high' = PdfHigh(totalPages, maxPages)
                /\ best' = <<>>
                /\ pc' = "pdf_loop"
                /\ UNCHANGED result
    /\ UNCHANGED <<fileBytes, mimeType, options, rebuilds, zipVars>>

TruncatePdfLoop ==
    /\ pc = "pdf_loop"
    /\ low <= high
    /\ LET mid == Mid(low, high)
       IN  /\ rebuilds' = Append(rebuilds, [k |-> mid, from |-> "loop"])
           /\ IF PdfFits(RebuildSize(mid), maxSizeBytesOf(options))
              THEN /\ best' = <<mid>>
                   /\ low' = mid + 1
                   /\ UNCHANGED high
              ELSE /\ high' = mid - 1
                   /\ UNCHANGED <<low, best>>
    /\ UNCHANGED <<fileBytes, mimeType, options, pc, result, zipVars>>

\* the loop has ended: the fallback to page 0 when nothing fitted, and the return.
\* copyPages(srcDoc, [0]) of a document without pages yields no page to add.
TruncatePdfFinish ==
    /\ pc = "pdf_loop"
    /\ low > high
    /\ pc' = "done"
    /\ IF best = <<>>
       THEN IF fileBytes.totalUnits = 0
            THEN /\ result' = Thrown("TypeError", 0, 0, "")
                 /\ UNCHANGED rebuilds
            ELSE /\ rebuilds' = Append(rebuilds, [k |-> 1, from |-> "fallback"])
                 /\ result' = Returned(RebuiltBytes(1), TRUE, fileBytes.size, RebuildSize(1))
       ELSE /\ result' = Returned(RebuiltBytes(best[1]), TRUE, fileBytes.size,
                                  RebuildSize(best[1]))
            /\ UNCHANGED rebuilds
    /\ UNCHANGED <<fileBytes, mimeType, options, low, high, best, zipVars>>

(***************************************************************************)
(* truncatePptxFile.                                                       *)
(***************************************************************************)
PptxWithinLimits(totalSlides, size, maxSlides, maxSizeBytes) ==
    totalSlides <= maxSlides /\ size <= maxSizeBytes

PptxFits(size, maxSizeBytes) == size <= maxSizeBytes

\* a slip in the search's upper end: the slide budget is forgotten
PptxHighUncapped(totalSlides, maxSlides) == totalSlides

PptxHigh(totalSlides, maxSlides) == Min(totalSlides, maxSlides)

TruncatePptxStart ==
    /\ pc = "call"
    /\ Route(mimeType) = "pptx"
    /\ LET maxSlides == maxPagesOf(options)
           maxSizeBytes == maxSizeBytesOf(options)
           totalSlides == fileBytes.totalUnits
       IN  IF PptxWithinLimits(totalSlides, fileBytes.size, maxSlides, maxSizeBytes)
           THEN /\ result' = Returned(InputBytes, FALSE, fileBytes.size, fileBytes.size)
                /\ pc' = "done"
                /\ UNCHANGED <<low, high, best>>
           ELSE /\ low' = 1
                /\ high' = PptxHigh(totalSlides, maxSlides)
                /\ best' = <<>>
                /\ pc' = "pptx_loop"
                /\ UNCHANGED result
    /\ UNCHANGED <<fileBytes, mimeType, options, rebuilds, zipVars>>

TruncatePptxLoop ==
    /\ pc = "pptx_loop"
    /\ low <= high
    /\ LET mid == Mid(low, high)
       IN  /\ rebuilds' = Append(rebuilds, [k |-> mid, from |-> "loop"])
           /\ IF PptxFits(RebuildSize(mid), maxSizeBytesOf(options))
              THEN /\ best' = <<mid>>
                   /\ low' = mid + 1
                   /\ UNCHANGED high
              ELSE /\ high' = mid - 1
                   /\ UNCHANGED <<low, best>>
    /\ UNCHANGED <<fileBytes, mimeType, options, pc, result, zipVars>>

TruncatePptxFinish ==
    /\ pc = "pptx_loop"
    /\ low > high
    /\ pc' = "done"
    /\ IF best = <<>>
       THEN /\ rebuilds' = Append(rebuilds, [k |-> 1, from |-> "fallback"])
            /\ result' = Returned(RebuiltBytes(1), TRUE, fileBytes.size, RebuildSize(1))
       ELSE /\ result' = Returned(RebuiltBytes(best[1]), TRUE, fileBytes.size,
                                  RebuildSize(best[1]))
            /\ UNCHANGED rebuilds
    /\ UNCHANGED <<fileBytes, mimeType, options, low, high, best, zipVars>>

(***************************************************************************)
(* truncateDocxFile.                                                       *)
(***************************************************************************)
\* initialMaxParagraphs
DocxBudget(maxPages, paragraphsPerPage) ==
    maxPages * OrDefault(paragraphsPerPage, DEFAULT_PARAGRAPHS_PER_PAGE)

\* a slip in the fast path: a document of exactly the paragraph budget is rebuilt
DocxWithinLimitsStrict(totalParagraphs, size, initialMaxParagraphs, maxSizeBytes) ==
    totalParagraphs < initialMaxParagraphs /\ size <= maxSizeBytes

DocxWithinLimits(totalParagraphs, size, initialMaxParagraphs, maxSizeBytes) ==
    totalParagraphs <= initialMaxParagraphs /\ size <= maxSizeBytes

\* a slip in the test of a candidate: every candidate is taken to fit
DocxFitsAlways(size, maxSizeBytes) == TRUE

DocxFits(size, maxSizeBytes) == size <= maxSizeBytes

DocxHigh(totalParagraphs, initialMaxParagraphs) ==
    Min(totalParagraphs, initialMaxParagraphs)

\* throw new Error("Invalid DOCX: missing document.xml")
InvalidDocx == Thrown("Invalid DOCX: missing document.xml", 0, 0, "")

TruncateDocxStart ==
    /\ pc = "call"
    /\ Route(mimeType) = "docx"
    /\ LET initialMaxParagraphs ==
               DocxBudget(maxPagesOf(options), options.paragraphsPerPage)
           maxSizeBytes == maxSizeBytesOf(options)
           totalParagraphs == fileBytes.totalUnits
       IN  IF ~fileBytes.primary
           THEN /\ result' = InvalidDocx
                /\ pc' = "done"
                /\ UNCHANGED <<low, high, best>>
           ELSE
           IF DocxWithinLimits(totalParagraphs, fileBytes.size, initialMaxParagraphs,
                               maxSizeBytes)
           THEN /\ result' = Returned(InputBytes, FALSE, fileBytes.size, fileBytes.size)
                /\ pc' = "done"
                /\ UNCHANGED <<low, high, best>>
           ELSE /\ low' = 1
                /\ high' = DocxHigh(totalParagraphs, initialMaxParagraphs)
                /\ best' = <<>>
                /\ pc' = "docx_loop"
                /\ UNCHANGED result
    /\ UNCHANGED <<fileBytes, mimeType, options, rebuilds, zipVars>>

TruncateDocxLoop ==
    /\ pc = "docx_loop"
    /\ low <= high
    /\ LET mid == Mid(low, high)
       IN  /\ rebuilds' = Append(rebuilds, [k |-> mid, from |-> "loop"])
           /\ IF DocxFits(RebuildSize(mid), maxSizeBytesOf(options))
              THEN /\ best' = <<mid>>
                   /\ low' = mid + 1
                   /\ UNCHANGED high
              ELSE /\ high' = mid - 1
                   /\ UNCHANGED <<low, best>>
    /\ UNCHANGED <<fileBytes, mimeType, options, pc, result, zipVars>>

\* a slip at the end of the search: failing when nothing fitted, with no fallback
TruncateDocxFinishNoFallback ==
    /\ pc = "docx_loop"
    /\ low > high
    /\ pc' = "done"
    /\ IF best = <<>>
       THEN result' = Thrown("FileTooLargeError", fileBytes.size,
                             maxSizeBytesOf(options), mimeType)
       ELSE result' = Returned(RebuiltBytes(best[1]), TRUE, fileBytes.size,
                               RebuildSize(best[1]))
    /\ UNCHANGED <<fileBytes, mimeType, options, low, high, best, rebuilds, zipVars>>

TruncateDocxFinish ==
    /\ pc = "docx_loop"
    /\ low > high
    /\ pc' = "done"
    /\ IF best = <<>>
       THEN /\ rebuilds' = Append(rebuilds, [k |-> 1, from |-> "fallback"])
            /\ result' = Returned(RebuiltBytes(1), TRUE, fileBytes.size, RebuildSize(1))
       ELSE /\ result' = Returned(RebuiltBytes(best[1]), TRUE, fileBytes.size,
                                  RebuildSize(best[1]))
            /\ UNCHANGED rebuilds
    /\ UNCHANGED <<fileBytes, mimeType, options, low, high, best, zipVars>>

(***************************************************************************)
(* The two branches of truncateFile that return at once.                   *)
(***************************************************************************)
TruncateText ==
    /\ pc = "call"
    /\ Route(mimeType) = "text"
    /\ result' = truncateTextFile(fileBytes.data, maxSizeBytesOf(options))
    /\ pc' = "done"
    /\ UNCHANGED <<fileBytes, mimeType, options, low, high, best, rebuilds, zipVars>>

ValidateOnly ==
    /\ pc = "call"
    /\ Route(mimeType) = "validate"
    /\ result' = validateFileSize(fileBytes.size, mimeType, maxSizeBytesOf(options))
    /\ pc' = "done"
    /\ UNCHANGED <<fileBytes, mimeType, options, low, high, best, rebuilds, zipVars>>

(***************************************************************************)
(* The inputs of a call.                                                   *)
(***************************************************************************)
Bytes == {10, 13, 32, 65}

SeqsUpTo(S, n) == UNION {[1..m -> S] : m \in 0..n}

\* a text or opaque document: its bytes
FlatDocs ==
    {[size |-> Len(d), data |-> d, totalUnits |-> 0, rebuilt |-> <<>>, primary |-> TRUE] :
        d \in SeqsUpTo(Bytes, MaxTextLen)}

\* a text longer than the search window of truncateTextFile: letters, with one
\* newline, carriage return or space at position at (none when at = 0)
LongText(n, at, byte) == [i \in 1..n |-> IF i = at THEN byte ELSE 65]

LongTextDocs ==
    {[size |-> n, data |-> LongText(n, at, byte), totalUnits |-> 0, rebuilt |-> <<>>,
      primary |-> TRUE] :
        n \in {SearchWindow + a : a \in 0..MaxTextLen},
        at \in 0..(MaxTextLen + 1),
        byte \in {10, 13, 32}}

\* the limits around the search window
WindowSizes == {SearchWindow + j : j \in (0 - 1)..MaxSize}

\* a PDF, PPTX or DOCX document: its size, its unit count, and the size of its
\* rebuild for each kept unit count
UnitDocs ==
    UNION {{[size |-> s, data |-> <<>>, totalUnits |-> n, rebuilt |-> r, primary |-> TRUE] :
               s \in 1..MaxSize, r \in [1..Max(n, 1) -> 1..MaxSize]} :
           n \in 0..MaxUnits}

\* a PPTX or DOCX document: with its primary part, or without it
OoxmlDocs == UnitDocs \cup {[d EXCEPT !.primary = FALSE] : d \in UnitDocs}

MimeInputs ==
    {"application/pdf", "application/xml", "text/plain", "image/png", PptxMime,
     DocxMime, "application/rtf", "application/octet-stream"}

NoZip == [kind |-> "none"]

NoReader == [body |-> <<>>, fails |-> FALSE, locked |-> FALSE]

\* outside truncateStream there is no request
NoStream ==
    /\ reader = NoReader
    /\ chunks = <<>>
    /\ totalSize = 0
    /\ response = 0

Init ==
    /\ mimeType \in MimeInputs
    /\ fileBytes \in IF Route(mimeType) = "pdf" THEN UnitDocs
                     ELSE IF Route(mimeType) \in {"pptx", "docx"} THEN OoxmlDocs
                     ELSE IF Route(mimeType) = "text" THEN FlatDocs \cup LongTextDocs
                     ELSE FlatDocs
    /\ options \in [maxPages : Opt((0 - 1)..MaxUnits),
                    maxSizeBytes : IF Route(mimeType) = "text"
                                   THEN Opt(((0 - 1)..MaxSize) \cup WindowSizes)
                                   ELSE Opt((0 - 1)..MaxSize),
                    paragraphsPerPage : IF mimeType = DocxMime
                                        THEN Opt(0..MaxPerPage) ELSE {<<>>}]
    /\ pc = "call"
    /\ low = 0
    /\ high = 0
    /\ best = <<>>
    /\ rebuilds = <<>>
    /\ result = NoResult
    /\ zip = NoZip
    /\ maxArg = 0
    /\ outZip = NoZip
    /\ NoStream

Next ==
    \/ TruncatePdfStart
    \/ TruncatePdfLoop
    \/ TruncatePdfFinish
    \/ TruncatePptxStart
    \/ TruncatePptxLoop
    \/ TruncatePptxFinish
    \/ TruncateDocxStart
    \/ TruncateDocxLoop
    \/ TruncateDocxFinish
    \/ TruncateText
    \/ ValidateOnly

Spec == Init /\ [][Next]_vars

(***************************************************************************)
(* OOXML packages.                                                         *)
(*                                                                         *)
(* A path, a relationship Target or a PartName is a sequence of tokens     *)
(* ("ppt/", "slides/", "slide", "2", ".xml"; "../"; "/"), so that the      *)
(* prefix tests, replacements and regular expressions of the code are      *)
(* computed on it. A package is a record: files, the set of entry paths;   *)
(* rels, the relationships of each relationship part in files; overrides,  *)
(* the Override PartNames of [Content_Types].xml; and the parsed primary   *)
(* part.                                                                   *)
(***************************************************************************)
MaxSlides == 3
MaxMedia == 2
MaxParagraphs == 3
MaxTables == 2

DigitNames == <<"1", "2", "3", "4", "5", "6", "7", "8", "9">>
RelIdNames == <<"rId1", "rId2", "rId3", "rId4", "rId5", "rId6", "rId7", "rId8", "rId9">>
ImageNames == <<"image1.png", "image2.png", "image3.png", "image4.png", "image5.png">>

\* parseInt of the digits a slide name holds
ParseInt(d) == CHOOSE i \in 1..Len(DigitNames) : DigitNames[i] = d
IsDigits(t) == \E i \in 1..Len(DigitNames) : DigitNames[i] = t

StartsWith(p, prefix) ==
    Len(p) >= Len(prefix) /\ SubSeq(p, 1, Len(prefix)) = prefix
Includes(p, part) ==
    \E i \in 1..Len(p) :
        i + Len(part) - 1 <= Len(p) /\ SubSeq(p, i, i + Len(part) - 1) = part

Range(f) == {f[i] : i \in DOMAIN f}

\* the relationships a package holds in the relationship part at path
RelsAt(z, path) == IF path \in DOMAIN z.rels THEN z.rels[path] ELSE <<>>

\* zip.remove of a set of entries
RemoveFiles(z, gone) ==
    [z EXCEPT !.files = @ \ gone,
              !.rels = [q \in (DOMAIN @) \ gone |-> @[q]]]

ContentTypesPath == <<"[Content_Types].xml">>

(***************************************************************************)
(* truncatePptxToSlides and cleanupOrphanedPptxMedia.                      *)
(***************************************************************************)
presRelsPath == <<"ppt/", "_rels/", "presentation.xml.rels">>
presPath == <<"ppt/", "presentation.xml">>

\* /^ppt\/slides\/slide\d+\.xml$/
IsSlideFile(f) ==
    /\ Len(f) = 5
    /\ SubSeq(f, 1, 3) = <<"ppt/", "slides/", "slide">>
    /\ IsDigits(f[4])
    /\ f[5] = ".xml"

\* f.match(/slide(\d+)/)?.[1] of a slide file
SlideNumber(f) == f[4]

\* the slide files in the order of the sort: by parseInt of their number
RECURSIVE SortSlides(_)
SortSlides(S) ==
    IF S = {} THEN <<>>
    ELSE LET f == CHOOSE g \in S :
                      \A h \in S : ParseInt(SlideNumber(g)) <= ParseInt(SlideNumber(h))
         IN  <<f>> \o SortSlides(S \ {f})

slideFilesOf(z) == SortSlides({f \in z.files : IsSlideFile(f)})

\* slideFile.replace("slides/", "slides/_rels/") + ".rels"
SlideRelsFile(slideFile) ==
    <<slideFile[1], "slides/", "_rels/">> \o SubSeq(slideFile, 3, Len(slideFile))
        \o <<".rels">>

\* target.match(/slides\/slide(\d+)\.xml$/): <<number>> on a match, <<>> otherwise
SlideMatch(target) ==
    IF /\ Len(target) >= 4
       /\ SubSeq(target, Len(target) - 3, Len(target) - 2) = <<"slides/", "slide">>
       /\ IsDigits(target[Len(target) - 1])
       /\ target[Len(target)] = ".xml"
    THEN <<target[Len(target) - 1]>>
    ELSE <<>>

\* a match that never finds a slide PartName
SlidePartMatchNever(partName) == <<>>

\* partName.match(/\/ppt\/slides\/slide(\d+)\.xml$/)
SlidePartMatch(partName) ==
    IF /\ Len(partName) >= 6
       /\ SubSeq(partName, Len(partName) - 5, Len(partName) - 2)
              = <<"/", "ppt/", "slides/", "slide">>
       /\ IsDigits(partName[Len(partName) - 1])
       /\ partName[Len(partName)] = ".xml"
    THEN <<partName[Len(partName) - 1]>>
    ELSE <<>>

\* /^ppt\/slides\/_rels\/slide\d+\.xml\.rels$/
IsSlideRelsFile(f) ==
    /\ Len(f) = 7
    /\ SubSeq(f, 1, 4) = <<"ppt/", "slides/", "_rels/", "slide">>
    /\ IsDigits(f[5])
    /\ SubSeq(f, 6, 7) = <<".xml", ".rels">>

\* target.replace(/^\.\.\//, "ppt/")
PptxNormalize(target) ==
    IF target # <<>> /\ Head(target) = "../" THEN <<"ppt/">> \o Tail(target) ELSE target

\* partName.startsWith("/") ? partName.slice(1) : partName
StripSlash(partName) ==
    IF partName # <<>> /\ Head(partName) = "/" THEN Tail(partName) ELSE partName

\* usedMediaPaths: every Target of the slide relationship parts left in the package
usedMediaPathsOf(z) ==
    UNION {{PptxNormalize(r.Target) : r \in {x \in Range(z.rels[f]) : x.Target # <<>>}} :
           f \in {g \in z.files \cap DOMAIN z.rels : IsSlideRelsFile(g)}}

cleanupOrphanedPptxMedia(z) ==
    LET usedMediaPaths == usedMediaPathsOf(z)
        mediaFiles == {f \in z.files : StartsWith(f, <<"ppt/", "media/">>)}
        swept == RemoveFiles(z, {f \in mediaFiles : f \notin usedMediaPaths})
        KeepOverride(partName) ==
            IF ~Includes(partName, <<"/", "ppt/", "media/">>) THEN TRUE
            ELSE StripSlash(partName) \in usedMediaPaths
    IN  IF ContentTypesPath \in swept.files
        THEN [swept EXCEPT !.overrides = SelectSeq(@, KeepOverride)]
        ELSE swept

truncatePptxToSlides(z, maxSlides) ==
    LET slideFiles == slideFilesOf(z)
        keepSlideNumbers ==
            {SlideNumber(slideFiles[i]) : i \in 1..Min(Max(maxSlides, 0), Len(slideFiles))}
        excess == {slideFiles[i] : i \in (Max(maxSlides, 0) + 1)..Len(slideFiles)}
        \* remove excess slides and their rels
        z1 == RemoveFiles(z, excess \cup {SlideRelsFile(f) : f \in excess})
        \* update presentation.xml.rels
        relationships == RelsAt(z1, presRelsPath)
        KeepRel(rel) ==
            LET slideMatch == SlideMatch(rel.Target)
            IN  slideMatch = <<>> \/ slideMatch[1] \in keepSlideNumbers
        removedSlideRelIds == {rel.Id : rel \in {r \in Range(relationships) : ~KeepRel(r)}}
        z2 == IF presRelsPath \in z1.files
              THEN [z1 EXCEPT !.rels[presRelsPath] = SelectSeq(relationships, KeepRel)]
              ELSE z1
        \* update presentation.xml: the entries of the slide-ID list of removed slides
        KeepSldId(sld) == sld.rId \notin removedSlideRelIds
        z3 == IF presPath \in z2.files
              THEN [z2 EXCEPT !.presentation.sldIdLst = SelectSeq(@, KeepSldId)]
              ELSE z2
        \* update [Content_Types].xml
        KeepOverride(partName) ==
            LET slideMatch == SlidePartMatch(partName)
            IN  slideMatch = <<>> \/ slideMatch[1] \in keepSlideNumbers
        z4 == IF ContentTypesPath \in z3.files
              THEN [z3 EXCEPT !.overrides = SelectSeq(@, KeepOverride)]
              ELSE z3
    IN  cleanupOrphanedPptxMedia(z4)

(***************************************************************************)
(* PPTX packages of the model: n slides slide1.xml..slideN.xml, each with  *)
(* its relationship part; slide i points at the image media[i] (0: none);  *)
(* the slide layout all slides use points at the image layoutMedia; a      *)
(* custom show lists the slide custShow (0: no custom show).               *)
(***************************************************************************)
PptxSlidePath(i) == <<"ppt/", "slides/", "slide", DigitNames[i], ".xml">>
PptxMediaPath(m) == <<"ppt/", "media/", ImageNames[m]>>
layoutPath == <<"ppt/", "slideLayouts/", "slideLayout1.xml">>
layoutRelsPath == <<"ppt/", "slideLayouts/", "_rels/", "slideLayout1.xml.rels">>
masterPath == <<"ppt/", "slideMasters/", "slideMaster1.xml">>

Rel(id, type, target) == [Id |-> id, Type |-> type, Target |-> target]

PptxMediaTarget(style, m) ==
    IF style = "absolute" THEN <<"/", "ppt/", "media/", ImageNames[m]>>
    ELSE <<"../", "media/", ImageNames[m]>>

PptxPackage(n, media, style, layoutMedia, custShow, reversed) ==
    LET slides == {PptxSlidePath(i) : i \in 1..n}
        slideRels == {SlideRelsFile(PptxSlidePath(i)) : i \in 1..n}
        images == {PptxMediaPath(media[i]) : i \in {j \in 1..n : media[j] > 0}}
                     \cup (IF layoutMedia > 0 THEN {PptxMediaPath(layoutMedia)} ELSE {})
        relParts == slideRels \cup {presRelsPath, layoutRelsPath}
        RelsOf(q) ==
            IF q = presRelsPath
            THEN [i \in 1..n |->
                     Rel(RelIdNames[i], "slide", <<"slides/", "slide", DigitNames[i], ".xml">>)]
                 \o <<Rel("rId9", "slideMaster", <<"slideMasters/", "slideMaster1.xml">>)>>
            ELSE IF q = layoutRelsPath
            THEN <<Rel("rId1", "slideMaster", <<"../", "slideMasters/", "slideMaster1.xml">>)>>
                 \o (IF layoutMedia > 0
                     THEN <<Rel("rId2", "image", <<"../", "media/", ImageNames[layoutMedia]>>)>>
                     ELSE <<>>)
            ELSE LET i == ParseInt(q[5])
                 IN  <<Rel("rId1", "slideLayout",
                           <<"../", "slideLayouts/", "slideLayout1.xml">>)>>
                     \o (IF media[i] > 0
                         THEN <<Rel("rId2", "image", PptxMediaTarget(style, media[i]))>>
                         ELSE <<>>)
        order == [i \in 1..n |-> IF reversed THEN n + 1 - i ELSE i]
    IN  [kind |-> "pptx",
         files |-> slides \cup slideRels \cup images
                      \cup {presPath, presRelsPath, layoutPath, layoutRelsPath, masterPath,
                            ContentTypesPath},
         rels |-> [q \in relParts |-> RelsOf(q)],
         overrides |-> [i \in 1..n |-> <<"/">> \o PptxSlidePath(i)]
                          \o <<<<"/">> \o presPath, <<"/">> \o layoutPath,
                               <<"/">> \o masterPath>>
                          \o SelectSeq([m \in 1..MaxMedia |-> <<"/">> \o PptxMediaPath(m)],
                                       LAMBDA pn : Tail(pn) \in images),
         presentation |->
            [sldIdLst |-> [i \in 1..n |-> [id |-> 255 + order[i], rId |-> RelIdNames[order[i]]]],
             sldMasterIdLst |-> <<"rId9">>,
             custShowLst |-> IF custShow > 0 THEN <<RelIdNames[custShow]>> ELSE <<>>]]

(***************************************************************************)
(* truncateDocxToParagraphs and the cleanup of its satellite parts.        *)
(*                                                                         *)
(* The parsed word/document.xml is its body: paragraphs (w:p), tables      *)
(* (w:tbl) and section properties (w:sectPr, none or one), each an element *)
(* with the relationship ids (r:id, r:embed, r:link) and the footnote,     *)
(* endnote and comment ids it refers to.                                   *)
(***************************************************************************)
docPath == <<"word/", "document.xml">>
docRelsPath == <<"word/", "_rels/", "document.xml.rels">>
footnotesPath == <<"word/", "footnotes.xml">>
endnotesPath == <<"word/", "endnotes.xml">>
commentsPath == <<"word/", "comments.xml">>

Element(rIds, footnoteRefs, endnoteRefs, commentRefs, commentRangeStarts) ==
    [rIds |-> rIds, footnoteRefs |-> footnoteRefs, endnoteRefs |-> endnoteRefs,
     commentRefs |-> commentRefs, commentRangeStarts |-> commentRangeStarts]

\* every element of the parsed document
ElementsOf(document) ==
    Range(document.paragraphs) \cup Range(document.tables) \cup Range(document.sectPr)

collectRelationshipIds(document) == UNION {e.rIds : e \in ElementsOf(document)}

\* collectElementIds(docParsed, "w:footnoteReference", "w:id") and its like
collectFootnoteIds(document) == UNION {e.footnoteRefs : e \in ElementsOf(document)}
collectEndnoteIds(document) == UNION {e.endnoteRefs : e \in ElementsOf(document)}
collectCommentIds(document) ==
    UNION {e.commentRefs \cup e.commentRangeStarts : e \in ElementsOf(document)}

requiredTypes ==
    {"styles", "settings", "webSettings", "fontTable", "theme", "numbering",
     "footnotes", "endnotes", "comments"}

\* the Type of a relationship is held by its last segment, in lower case where
\* the code compares it in lower case
isRequiredDocxRelationship(type) == type \in requiredTypes

\* target.replace(/^(\.\.\/|\/)+/, "")
RECURSIVE normalizeTarget(_)
normalizeTarget(target) ==
    IF target # <<>> /\ Head(target) \in {"../", "/"}
    THEN normalizeTarget(Tail(target))
    ELSE target

\* target.startsWith("http")
IsHttp(target) == target # <<>> /\ Head(target) \in {"http://", "https://"}

\* target.startsWith("word/") ? target : `word/${target}`
DocxFullPath(target) ==
    IF StartsWith(target, <<"word/">>) THEN target ELSE <<"word/">> \o target

(***************************************************************************)
(* The arithmetic of the table ratio.  JavaScript numbers are IEEE 754     *)
(* doubles: a quotient and a product are each rounded to 53 significant    *)
(* binary digits, to the nearest, a tie to the even neighbour.             *)
(*                                                                         *)
(* A double x with 0 < x is held here as three limbs of 18 binary digits   *)
(* and a shift z: x = (top * 2^36 + middle * 2^18 + bottom) / 2^(53 + z).  *)
(* The 53 significant digits are followed by one digit more, which is 0    *)
(* once the number is rounded.  The operands are small: a divisor below    *)
(* 2^13, a factor below 2^11.                                              *)
(***************************************************************************)
Limb == 2 ^ 18

\* the limbs with their carries passed on
Limbs(top, middle, bottom, z) ==
    [top |-> top + ((middle + (bottom \div Limb)) \div Limb),
     middle |-> (middle + (bottom \div Limb)) % Limb,
     bottom |-> bottom % Limb,
     z |-> z]

\* the last limb rounded at its digit number drop (counted from the end):
\* to the nearest, a tie to the even neighbour; inexact: digits that are not
\* zero follow the limb
RoundedLimb(bottom, drop, inexact) ==
    LET unit == 2 ^ drop
        half == 2 ^ (drop - 1)
        guard == (bottom \div half) % 2
        sticky == inexact \/ bottom % half # 0
        even == (bottom \div unit) % 2 = 0
    IN  ((bottom \div unit) + (IF guard = 1 /\ (sticky \/ ~even) THEN 1 ELSE 0)) * unit

\* the double nearest to n / d, for 0 < n < d
DoubleQuotient(n, d) ==
    LET z == CHOOSE i \in 1..13 : n * (2 ^ i) >= d /\ n * (2 ^ (i - 1)) < d
        t1 == n * (2 ^ z) * (2 ^ 17)
        t2 == (t1 % d) * Limb
        t3 == (t2 % d) * Limb
    IN  Limbs(t1 \div d, t2 \div d, RoundedLimb(t3 \div d, 1, t3 % d # 0), z)

\* the double nearest to t * x, for an integer t >= 1
DoubleTimes(t, x) ==
    LET product == Limbs(t * x.top, t * x.middle, t * x.bottom, x.z)
        drop == CHOOSE i \in 1..13 :
                    2 ^ (16 + i) <= product.top /\ product.top < 2 ^ (17 + i)
    IN  Limbs(product.top, product.middle,
              RoundedLimb(product.bottom, drop, FALSE), x.z)

\* Math.floor of a double that is not negative
DoubleFloor(x) == x.top \div (2 ^ (17 + x.z))

\* a slip in the ratio: the division done last, on whole numbers
keepTablesExact(tableCount, maxParagraphs, paragraphCount) ==
    (tableCount * maxParagraphs) \div paragraphCount

\* Math.floor(tables.length * (maxParagraphs / paragraphs.length)), for
\* 1 <= maxParagraphs < paragraphs.length and tables.length >= 1
keepTablesOf(tableCount, maxParagraphs, paragraphCount) ==
    DoubleFloor(DoubleTimes(tableCount, DoubleQuotient(maxParagraphs, paragraphCount)))

truncateDocument(document, maxParagraphs) ==
    LET paragraphs == document.paragraphs
        tables == document.tables
    IN  [paragraphs |-> IF Len(paragraphs) > maxParagraphs
                        THEN SubSeq(paragraphs, 1, Max(maxParagraphs, 0))
                        ELSE paragraphs,
         tables |-> IF Len(paragraphs) > maxParagraphs /\ Len(tables) > 0
                    THEN SubSeq(tables, 1,
                                keepTablesOf(Len(tables), maxParagraphs, Len(paragraphs)))
                    ELSE tables,
         sectPr |-> IF document.sectPr # <<>> THEN <<document.sectPr[1]>> ELSE <<>>]

cleanupFootnotes(z) ==
    IF footnotesPath \notin z.files THEN z
    ELSE LET usedFootnoteIds == collectFootnoteIds(z.document)
             Keep(id) == id = "-1" \/ id = "0" \/ id \in usedFootnoteIds
         IN  [z EXCEPT !.footnotes = SelectSeq(@, Keep)]

cleanupEndnotes(z) ==
    IF endnotesPath \notin z.files THEN z
    ELSE LET usedEndnoteIds == collectEndnoteIds(z.document)
             Keep(id) == id = "-1" \/ id = "0" \/ id \in usedEndnoteIds
         IN  [z EXCEPT !.endnotes = SelectSeq(@, Keep)]

cleanupComments(z) ==
    IF commentsPath \notin z.files THEN z
    ELSE LET usedCommentIds == collectCommentIds(z.document)
             Keep(id) == id \in usedCommentIds
         IN  [z EXCEPT !.comments = SelectSeq(@, Keep)]

\* the targets of the relationships of document.xml.rels that are not kept
removedTargetsOf(relationships, usedRelIds) ==
    {normalizeTarget(rel.Target) :
        rel \in {r \in Range(relationships) :
                    /\ ~(isRequiredDocxRelationship(r.Type) \/ r.Id \in usedRelIds)
                    /\ r.Target # <<>>
                    /\ ~IsHttp(r.Target)}}

\* 3. Remove orphaned media/embedding files
DocxOrphans(z, removedTargets) ==
    {DocxFullPath(target) : target \in removedTargets} \cap z.files

MalformedZip == [kind |-> "error", message |-> "Invalid DOCX: missing document.xml"]

truncateDocxToParagraphs(z, maxParagraphs) ==
    IF docPath \notin z.files THEN MalformedZip
    ELSE
    LET \* 1. truncate document.xml and collect the relationship ids in use
        z1 == [z EXCEPT !.document = truncateDocument(@, maxParagraphs)]
        usedRelIds == collectRelationshipIds(z1.document)
        \* 2. clean up document.xml.rels
        relationships == RelsAt(z1, docRelsPath)
        KeepRel(rel) == isRequiredDocxRelationship(rel.Type) \/ rel.Id \in usedRelIds
        removedTargets ==
            IF docRelsPath \in z1.files
            THEN removedTargetsOf(relationships, usedRelIds)
            ELSE {}
        z2 == IF docRelsPath \in z1.files
              THEN [z1 EXCEPT !.rels[docRelsPath] = SelectSeq(relationships, KeepRel)]
              ELSE z1
        \* 3. remove orphaned media/embedding files
        z3 == RemoveFiles(z2, DocxOrphans(z2, removedTargets))
        \* 4. clean up [Content_Types].xml
        KeepOverride(partName) == StripSlash(partName) \notin removedTargets
        z4 == IF ContentTypesPath \in z3.files
              THEN [z3 EXCEPT !.overrides = SelectSeq(@, KeepOverride)]
              ELSE z3
        \* 5. clean up footnotes, endnotes, comments
    IN  cleanupComments(cleanupEndnotes(cleanupFootnotes(z4)))

(***************************************************************************)
(* DOCX packages of the model: n body paragraphs; paragraph i embeds the   *)
(* image media[i] (0: none) through its own relationship rId<i>, and, with *)
(* notes, refers to footnote, endnote and comment i; tableCount body       *)
(* tables; section properties that name a header, whose relationship part  *)
(* points at the image headerMedia (0: none).                              *)
(***************************************************************************)
DocxMediaPath(m) == <<"word/", "media/", ImageNames[m]>>
headerPath == <<"word/", "header1.xml">>
headerRelsPath == <<"word/", "_rels/", "header1.xml.rels">>
stylesPath == <<"word/", "styles.xml">>

DocxMediaTarget(style, m) ==
    IF style = "absolute" THEN <<"/", "word/", "media/", ImageNames[m]>>
    ELSE <<"media/", ImageNames[m]>>

NoteIdsUpTo(n) == <<"-1", "0">> \o [i \in 1..n |-> DigitNames[i]]

DocxPackage(n, media, style, tableCount, hasSectPr, notes, headerMedia) ==
    LET embedding == {i \in 1..n : media[i] > 0}
        images == {DocxMediaPath(media[i]) : i \in embedding}
                     \cup (IF hasSectPr /\ headerMedia > 0
                           THEN {DocxMediaPath(headerMedia)} ELSE {})
        noteIds(i) == IF notes THEN {DigitNames[i]} ELSE {}
        docRels ==
            <<Rel("rId9", "styles", <<"styles.xml">>),
              Rel("rId8", "hyperlink", <<"https://", "example.com/">>)>>
            \o (IF n >= 2
                THEN <<Rel("rId6", "hyperlink", <<"mailto:", "info@example.com">>)>>
                ELSE <<>>)
            \o (IF hasSectPr THEN <<Rel("rId7", "header", <<"header1.xml">>)>> ELSE <<>>)
            \o SelectSeq([i \in 1..n |->
                             Rel(RelIdNames[i], "image",
                                 IF media[i] > 0 THEN DocxMediaTarget(style, media[i])
                                 ELSE <<>>)],
                         LAMBDA r : r.Target # <<>>)
        headerRels ==
            IF headerMedia > 0
            THEN <<Rel("rId1", "image", <<"media/", ImageNames[headerMedia]>>)>>
            ELSE <<>>
        satellites == IF notes THEN {footnotesPath, endnotesPath, commentsPath} ELSE {}
    IN  [kind |-> "docx",
         files |-> images \cup satellites
                      \cup {docPath, docRelsPath, stylesPath, ContentTypesPath}
                      \cup (IF hasSectPr THEN {headerPath, headerRelsPath} ELSE {}),
         rels |-> [q \in {docRelsPath} \cup (IF hasSectPr THEN {headerRelsPath} ELSE {}) |->
                      IF q = docRelsPath THEN docRels ELSE headerRels],
         overrides |-> <<<<"/">> \o docPath, <<"/">> \o stylesPath>>
                          \o SelectSeq([m \in 1..MaxMedia |-> <<"/">> \o DocxMediaPath(m)],
                                       LAMBDA pn : Tail(pn) \in images),
         document |->
            [paragraphs |->
                [i \in 1..n |->
                    Element((IF media[i] > 0 THEN {RelIdNames[i]} ELSE {})
                                \cup (IF i = 1 THEN {"rId8"} ELSE {})
                                \cup (IF i = n /\ n >= 2 THEN {"rId6"} ELSE {}),
                            noteIds(i), noteIds(i), noteIds(i), noteIds(i))],
             tables |-> [t \in 1..tableCount |-> Element({}, {}, {}, {}, {})],
             sectPr |-> IF hasSectPr THEN <<Element({"rId7"}, {}, {}, {}, {})>> ELSE <<>>],
         footnotes |-> IF notes THEN NoteIdsUpTo(n) ELSE <<>>,
         endnotes |-> IF notes THEN NoteIdsUpTo(n) ELSE <<>>,
         comments |-> IF notes THEN NoteIdsUpTo(n) ELSE <<>>]

RunTruncateDocxToParagraphs ==
    /\ pc = "package"
    /\ zip.kind = "docx"
    /\ \E maxParagraphs \in 1..MaxParagraphs :
          /\ maxArg' = maxParagraphs
          /\ outZip' = truncateDocxToParagraphs(zip, maxParagraphs)
    /\ pc' = "rebuilt"
    /\ UNCHANGED <<fileBytes, mimeType, options, low, high, best, rebuilds, result, zip,
                   streamVars>>

RunTruncatePptxToSlides ==
    /\ pc = "package"
    /\ zip.kind = "pptx"
    /\ \E maxSlides \in 1..MaxSlides :
          /\ maxArg' = maxSlides
          /\ outZip' = truncatePptxToSlides(zip, maxSlides)
    /\ pc' = "rebuilt"
    /\ UNCHANGED <<fileBytes, mimeType, options, low, high, best, rebuilds, result, zip,
                   streamVars>>

\* a package that lacks its primary part
WithoutPrimary(z) ==
    IF z.kind = "docx"
    THEN [RemoveFiles(z, {docPath}) EXCEPT
             !.document = [paragraphs |-> <<>>, tables |-> <<>>, sectPr |-> <<>>]]
    ELSE [RemoveFiles(z, {presPath}) EXCEPT
             !.presentation = [sldIdLst |-> <<>>, sldMasterIdLst |-> <<>>,
                               custShowLst |-> <<>>]]

InitZip ==
    /\ \/ \E n \in 1..MaxSlides :
             \E media \in [1..n -> 0..MaxMedia], style \in {"relative", "absolute"},
                layoutMedia \in 0..MaxMedia, custShow \in 0..n, reversed \in BOOLEAN :
                zip = PptxPackage(n, media, style, layoutMedia, custShow, reversed)
       \/ \E n \in 1..MaxParagraphs :
             \E media \in [1..n -> 0..MaxMedia], style \in {"relative", "absolute"},
                tableCount \in 0..MaxTables, hasSectPr \in BOOLEAN, notes \in BOOLEAN,
                headerMedia \in 0..MaxMedia :
                zip = DocxPackage(n, media, style, tableCount, hasSectPr, notes, headerMedia)
       \/ \E n \in 1..MaxSlides, media \in 0..MaxMedia :
             zip = WithoutPrimary(PptxPackage(n, [i \in 1..n |-> media], "relative",
                                              0, 0, FALSE))
       \/ \E n \in 1..MaxParagraphs, media \in 0..MaxMedia :
             zip = WithoutPrimary(DocxPackage(n, [i \in 1..n |-> media], "relative",
                                              0, FALSE, FALSE, 0))
    /\ maxArg = 0
    /\ outZip = NoZip
    /\ NoStream
    /\ pc = "package"
    /\ fileBytes = [size |-> 0, data |-> <<>>, totalUnits |-> 0, rebuilt |-> <<>>,
                    primary |-> TRUE]
    /\ mimeType = IF zip.kind = "pptx" THEN PptxMime ELSE DocxMime
    /\ options = [maxPages |-> <<>>, maxSizeBytes |-> <<>>, paragraphsPerPage |-> <<>>]
    /\ low = 0
    /\ high = 0
    /\ best = <<>>
    /\ rebuilds = <<>>
    /\ result = NoResult

NextZip ==
    \/ RunTruncatePptxToSlides
    \/ RunTruncateDocxToParagraphs

SpecZip == InitZip /\ [][NextZip]_vars

(***************************************************************************)
(* The terms of the claims about a call of truncateFile.                   *)
(***************************************************************************)
Done == pc = "done"
Succeeded == Done /\ result.status = "ok"
IsUnitFormat == mimeType \in {"application/pdf", PptxMime, DocxMime}

GivenMaxPages == IF options.maxPages = <<>> THEN 100 ELSE options.maxPages[1]
GivenMaxSize ==
    IF options.maxSizeBytes = <<>> THEN 52428800 ELSE options.maxSizeBytes[1]
GivenPerPage ==
    IF options.paragraphsPerPage = <<>> THEN 15 ELSE options.paragraphsPerPage[1]

\* maxPages pages, maxPages slides, or maxPages * paragraphsPerPage paragraphs
UnitBudget == IF mimeType = DocxMime THEN GivenMaxPages * GivenPerPage ELSE GivenMaxPages

\* a DOCX package without word/document.xml has no body to count paragraphs in
UnitCountKnown == mimeType = DocxMime => fileBytes.primary

WithinBothLimits ==
    /\ fileBytes.size <= GivenMaxSize
    /\ IsUnitFormat => (UnitCountKnown /\ fileBytes.totalUnits <= UnitBudget)

SlowPath == IsUnitFormat /\ UnitCountKnown /\ ~WithinBothLimits

SizeNonDecreasing ==
    \A i, j \in 1..Len(fileBytes.rebuilt) :
        i <= j => fileBytes.rebuilt[i] <= fileBytes.rebuilt[j]

SearchRange == 1..Min(fileBytes.totalUnits, UnitBudget)
FittingUnits == {k \in SearchRange : fileBytes.rebuilt[k] <= GivenMaxSize}
LargestFitting == CHOOSE k \in FittingUnits : \A j \in FittingUnits : j <= k

LoopCandidates == {rebuilds[i].k : i \in {j \in 1..Len(rebuilds) : rebuilds[j].from = "loop"}}

\* C1: on the slow path, with a rebuilt size that is non-decreasing in k, the
\* returned document is the rebuild of the largest k of [1, min(totalUnits, budget)]
\* whose rebuilt size is within maxSizeBytes, or the rebuild of k = 1 if there is none.
C1_SearchReturnsLargestFitting ==
    (Succeeded /\ SlowPath /\ SizeNonDecreasing) =>
        result.bytes = RebuiltBytes(IF FittingUnits = {} THEN 1 ELSE LargestFitting)

C1_Witness ==
    /\ Succeeded /\ SlowPath /\ SizeNonDecreasing
    /\ mimeType = "application/pdf"
    /\ FittingUnits # {}
    /\ LargestFitting = 2
    /\ Min(fileBytes.totalUnits, UnitBudget) = 3
    /\ fileBytes.rebuilt[2] = GivenMaxSize
    /\ Len(rebuilds) = 2

\* C2: a document within the unit budget and within maxSizeBytes is returned as it
\* came, with wasTruncated = false, on every route of truncateFile.
C2_WithinLimitsUnchanged ==
    (Done /\ WithinBothLimits) =>
        /\ result.status = "ok"
        /\ result.bytes = InputBytes
        /\ result.wasTruncated = FALSE

C2_Witness ==
    /\ Done /\ WithinBothLimits
    /\ mimeType = DocxMime
    /\ fileBytes.totalUnits = UnitBudget
    /\ fileBytes.totalUnits >= 2
    /\ fileBytes.size = GivenMaxSize
    /\ result.bytes = InputBytes

C4_SingleUnitFallback ==
    /\ (Done /\ SlowPath /\ fileBytes.totalUnits >= 1
          /\ \A k \in LoopCandidates : RebuildSize(k) > GivenMaxSize) =>
            /\ result.status = "ok"
            /\ result.bytes = RebuiltBytes(1)
            /\ UnitsOf(result.bytes) = 1
    /\ (Succeeded /\ IsUnitFormat /\ fileBytes.totalUnits >= 1) =>
            UnitsOf(result.bytes) >= 1

C4_Witness ==
    /\ Done /\ SlowPath
    /\ mimeType = DocxMime
    /\ fileBytes.totalUnits = 3
    /\ LoopCandidates = {1, 2}
    /\ \A k \in LoopCandidates : RebuildSize(k) > GivenMaxSize
    /\ result.status = "ok"
    /\ result.bytes = RebuiltBytes(1)
    /\ result.finalSize > GivenMaxSize

\* C5: every successful call has finalSize <= originalSize.
C5_NeverGrows == Succeeded => result.finalSize <= result.originalSize

\* C6: a result with wasTruncated = true differs from the input in size or holds
\* fewer units than the input.
C6_TruncatedMeansChanged ==
    (Succeeded /\ result.wasTruncated) =>
        \/ result.finalSize # result.originalSize
        \/ UnitsOf(result.bytes) < fileBytes.totalUnits

\* C7: finalSize is the length of the returned bytes, originalSize the length of
\* the input, and a result with wasTruncated = false returns the input bytes.
C7_ResultRecord ==
    Succeeded =>
        /\ result.finalSize = BytesLength(result.bytes)
        /\ result.originalSize = fileBytes.size
        /\ (result.wasTruncated = FALSE =>
               /\ result.bytes = InputBytes
               /\ BytesData(result.bytes) = fileBytes.data)

C7_Witness ==
    /\ Succeeded
    /\ mimeType = "application/xml"
    /\ result.wasTruncated
    /\ fileBytes.data = <<65, 32, 65>>
    /\ GivenMaxSize = 2
    /\ result.bytes = BuiltBytes(<<65, 32>> \o truncationNote)
    /\ result.finalSize = 45
    /\ result.originalSize = 3

(***************************************************************************)
(* The terms of the claims about a rebuilt package.                        *)
(***************************************************************************)
Rebuilt == pc = "rebuilt" /\ outZip.kind # "error"

\* the directory a relationship part speaks for: the path before "_rels/"
RECURSIVE SourceDir(_)
SourceDir(relsPath) ==
    IF relsPath = <<>> \/ Head(relsPath) = "_rels/" THEN <<>>
    ELSE <<Head(relsPath)>> \o SourceDir(Tail(relsPath))

\* the first segment of a Target that is a URL outside the package
UrlSchemes == {"http://", "https://", "mailto:"}

IsInternalTarget(target) ==
    target # <<>> /\ Head(target) \notin UrlSchemes

\* the entry an internal Target of the relationship part relsPath names
TargetEntry(relsPath, target) ==
    IF Head(target) = "/" THEN Tail(target)
    ELSE IF Head(target) = "../"
    THEN SubSeq(SourceDir(relsPath), 1, Len(SourceDir(relsPath)) - 1) \o Tail(target)
    ELSE SourceDir(relsPath) \o target

\* the entries the relationships of a package point at
TargetedEntries(z) ==
    UNION {{TargetEntry(q, r.Target) : r \in {x \in Range(z.rels[q]) : IsInternalTarget(x.Target)}} :
           q \in DOMAIN z.rels}

IsMediaEntry(f) ==
    Len(f) >= 2 /\ f[2] = "media/" /\ f[1] \in {"word/", "ppt/"}

PrimaryRelsPath(z) == IF z.kind = "docx" THEN docRelsPath ELSE presRelsPath

RelIdsAt(z, path) == {r.Id : r \in Range(RelsAt(z, path))}

\* the relationship ids (r:id, r:embed, r:link) the primary part refers to
PrimaryReferences(z) ==
    IF z.kind = "docx"
    THEN UNION {e.rIds : e \in Range(z.document.paragraphs) \cup Range(z.document.tables)
                                  \cup Range(z.document.sectPr)}
    ELSE {sld.rId : sld \in Range(z.presentation.sldIdLst)}
            \cup Range(z.presentation.sldMasterIdLst)
            \cup Range(z.presentation.custShowLst)

\* C8: every relationship id the surviving primary part refers to, and that the
\* original relationship part resolved, is still resolved by the surviving
\* relationship part.
C8_ReferencedIdsResolve ==
    Rebuilt =>
        \A id \in PrimaryReferences(outZip) :
            id \in RelIdsAt(zip, PrimaryRelsPath(zip)) =>
                id \in RelIdsAt(outZip, PrimaryRelsPath(zip))

\* C9: truncateDocxToParagraphs deletes no entry a retained relationship of
\* document.xml.rels still targets: every retained relationship with an internal
\* target points at an entry of the package, as it did before.
C9_RetainedTargetsExist ==
    (Rebuilt /\ zip.kind = "docx") =>
        \A r \in Range(RelsAt(outZip, docRelsPath)) :
            (IsInternalTarget(r.Target)
                /\ TargetEntry(docRelsPath, r.Target) \in zip.files) =>
                    TargetEntry(docRelsPath, r.Target) \in outZip.files

\* C10: after the truncation every media entry of the archive is the target of a
\* surviving relationship, and no media entry a surviving relationship targets
\* has been deleted.
C10_MediaMatchRelationships ==
    Rebuilt =>
        /\ \A f \in outZip.files : IsMediaEntry(f) => f \in TargetedEntries(outZip)
        /\ \A f \in zip.files \ outZip.files :
               IsMediaEntry(f) => f \notin TargetedEntries(outZip)

\* the entries the Override PartNames of the content-type registry name
OverrideEntries(z) == {StripSlash(z.overrides[i]) : i \in DOMAIN z.overrides}

\* C11: after the truncation no Override of [Content_Types].xml names a part the
\* truncation deleted, whether the Target of the dropped relationship was
\* written relative or absolute.
C11_NoDanglingOverride ==
    Rebuilt =>
        \A f \in OverrideEntries(outZip) : f \in zip.files => f \in outZip.files

SlidePartsOf(z) == {f \in z.files : IsSlideFile(f)}
SlideRelPartsOf(z) == {f \in z.files : IsSlideRelsFile(f)}
MediaOf(z) == {f \in z.files : IsMediaEntry(f)}

\* the entries the relationship parts of the slides of a package point at
SlideTargetedEntries(z) ==
    UNION {{TargetEntry(q, r.Target) : r \in {x \in Range(z.rels[q]) : IsInternalTarget(x.Target)}} :
           q \in SlideRelPartsOf(z)}

\* a presentation whose slides each have a relationship part and a slide-ID entry
EverySlideListed(z) ==
    /\ presPath \in z.files
    /\ \A f \in SlidePartsOf(z) : SlideRelsFile(f) \in z.files
    /\ Len(z.presentation.sldIdLst) = Cardinality(SlidePartsOf(z))
    /\ \A f \in SlidePartsOf(z) :
           \E r \in Range(RelsAt(z, presRelsPath)) :
               /\ SlideMatch(r.Target) = <<SlideNumber(f)>>
               /\ \E i \in DOMAIN z.presentation.sldIdLst :
                      z.presentation.sldIdLst[i].rId = r.Id

\* C12: truncatePptxToSlides to k <= n slides leaves k slide parts, k slide-ID
\* entries, k slide relationship parts, only media entries the kept slides'
\* relationship parts target, and no Override of a removed slide or media entry.
C12_PptxSlideCounts ==
    (Rebuilt /\ zip.kind = "pptx" /\ EverySlideListed(zip)
        /\ maxArg <= Cardinality(SlidePartsOf(zip))) =>
        /\ Cardinality(SlidePartsOf(outZip)) = maxArg
        /\ Len(outZip.presentation.sldIdLst) = maxArg
        /\ Cardinality(SlideRelPartsOf(outZip)) = maxArg
        /\ MediaOf(outZip) \subseteq SlideTargetedEntries(outZip)
        /\ \A f \in OverrideEntries(outZip) :
               (IsSlideFile(f) \/ IsMediaEntry(f)) => f \in outZip.files

C12_Witness ==
    /\ Rebuilt /\ zip.kind = "pptx" /\ EverySlideListed(zip)
    /\ Cardinality(SlidePartsOf(zip)) = 3
    /\ maxArg = 2
    /\ Cardinality(MediaOf(zip)) = 2
    /\ Cardinality(MediaOf(outZip)) = 1
    /\ Cardinality(SlidePartsOf(outZip)) = 2
    /\ Len(outZip.overrides) < Len(zip.overrides) - 1

\* the entries of a satellite part whose id is a placeholder (-1, 0) or is in used
ReferencedOrPlaceholder(entries, used) ==
    SelectSeq(entries, LAMBDA id : id \in used \cup {"-1", "0"})

\* C13: after truncateDocxToParagraphs the footnotes, the endnotes and the
\* comments left are exactly those of the original part whose id the truncated
\* document refers to, plus the entries with id -1 and 0.
C13_SatellitesFiltered ==
    (Rebuilt /\ zip.kind = "docx") =>
        /\ outZip.footnotes
               = ReferencedOrPlaceholder(zip.footnotes, collectFootnoteIds(outZip.document))
        /\ outZip.endnotes
               = ReferencedOrPlaceholder(zip.endnotes, collectEndnoteIds(outZip.document))
        /\ outZip.comments
               = ReferencedOrPlaceholder(zip.comments, collectCommentIds(outZip.document))

\* the slide part an entry of the slide-ID list names through presentation.xml.rels
SlidePartOf(z, sld) ==
    LET r == CHOOSE x \in Range(RelsAt(z, presRelsPath)) : x.Id = sld.rId
    IN  TargetEntry(presRelsPath, r.Target)

\* the first k units of a package in its unit order: the body paragraphs, or
\* the entries of the slide-ID list
FirstUnits(z, k) ==
    IF z.kind = "docx"
    THEN SubSeq(z.document.paragraphs, 1, Min(k, Len(z.document.paragraphs)))
    ELSE SubSeq(z.presentation.sldIdLst, 1, Min(k, Len(z.presentation.sldIdLst)))

\* C14: a rebuild to k units keeps exactly the first k units of the document in
\* its unit order (body paragraph order, slide order of the slide-ID list), in
\* that order.
C14_KeepsFirstUnits ==
    Rebuilt =>
        IF zip.kind = "docx"
        THEN outZip.document.paragraphs = FirstUnits(zip, maxArg)
        ELSE /\ outZip.presentation.sldIdLst = FirstUnits(zip, maxArg)
             /\ SlidePartsOf(outZip)
                    = {SlidePartOf(zip, sld) : sld \in Range(FirstUnits(zip, maxArg))}

\* C15: a DOCX or PPTX package without its primary part (word/document.xml,
\* ppt/presentation.xml) makes truncateFile fail with a malformed-input error
\* and return no result, within the limits or not.
C15_MissingPrimaryFails ==
    (Done /\ mimeType \in {DocxMime, PptxMime} /\ ~fileBytes.primary) =>
        /\ result.status = "error"
        /\ result.bytes = NoBytes

\* C16: validateFileSize throws FileTooLargeError with the actual size, the limit
\* and the media type exactly when the length is above maxSizeBytes; otherwise
\* (a length equal to the limit included) it returns the input bytes with
\* wasTruncated = false; it never returns other bytes than the input.
C16_ValidateFileSize ==
    (Done /\ Route(mimeType) = "validate") =>
        /\ (fileBytes.size > GivenMaxSize) <=> (result.status = "error")
        /\ result.status = "error" =>
               /\ result.error = [name |-> "FileTooLargeError",
                                  actualSize |-> fileBytes.size,
                                  maxSize |-> GivenMaxSize,
                                  mimeType |-> mimeType]
               /\ result.bytes = NoBytes
        /\ result.status # "error" =>
               /\ result.status = "ok"
               /\ result.bytes = InputBytes
               /\ result.wasTruncated = FALSE
               /\ result.originalSize = fileBytes.size
               /\ result.finalSize = fileBytes.size

C16_Witness ==
    /\ Done /\ Route(mimeType) = "validate"
    /\ mimeType = "image/png"
    /\ fileBytes.size = 2
    /\ GivenMaxSize = 2
    /\ result.status = "ok"
    /\ result.bytes = InputBytes

\* the types truncateFile hands to a truncator
TruncatedTypes == PDF_MIME_TYPES \cup TEXT_MIME_TYPES \cup {DocxMime, PptxMime}

\* C17: truncateFile routes by the media type alone: PDF, DOCX and PPTX to their
\* truncators (a document over a limit comes back rebuilt), the text-like types
\* to truncateTextFile, every other type to validateFileSize; FileTooLargeError
\* is raised only for a type outside PDF, text-like, DOCX and PPTX.
C17_RoutesByMimeType ==
    Done =>
        /\ mimeType \in TEXT_MIME_TYPES =>
               result = truncateTextFile(fileBytes.data, GivenMaxSize)
        /\ (mimeType \in PDF_MIME_TYPES \cup {DocxMime, PptxMime}
               /\ SlowPath /\ fileBytes.totalUnits >= 1) =>
               /\ result.status = "ok"
               /\ result.wasTruncated
               /\ result.bytes.src = "rebuild"
        /\ mimeType \notin TruncatedTypes =>
               result = validateFileSize(fileBytes.size, mimeType, GivenMaxSize)
        /\ result.error.name = "FileTooLargeError" => mimeType \notin TruncatedTypes

C17_Witness ==
    /\ Done
    /\ mimeType = DocxMime
    /\ mimeType \in BINARY_DOCUMENT_MIME_TYPES
    /\ fileBytes.primary
    /\ fileBytes.size > GivenMaxSize
    /\ result.status = "ok"
    /\ result.wasTruncated
    /\ result.bytes.src = "rebuild"

\* the types the dispatcher names in one of its tests
RecognizedTypes ==
    PDF_MIME_TYPES \cup TEXT_MIME_TYPES \cup IMAGE_MIME_TYPES
        \cup BINARY_DOCUMENT_MIME_TYPES

\* C18: a call of truncateFile with a media type the dispatcher does not
\* recognize fails with an UnsupportedFormat error: it returns no bytes and the
\* error is not the outcome of a size validation.
C18_UnrecognizedTypeFails ==
    (Done /\ mimeType \notin RecognizedTypes) =>
        /\ result.status = "error"
        /\ result.error.name # "FileTooLargeError"

\* the plain-text types the service supports (TEXT_MIME_TYPES of operations/ocr.ts)
OCR_TEXT_MIME_TYPES ==
    {"text/plain", "application/xml", "text/xml", "text/x-bibtex", "text/x-tex",
     "text/x-opml", "application/x-troff-man", "application/x-ipynb+json"}

NoticeLength == Len(truncationNote)

\* C19: a document of a plain-text type the service supports that is longer
\* than maxSizeBytes is truncated by truncateFile, not rejected: the call
\* returns wasTruncated = true and finalSize <= maxSizeBytes + notice length
\* (stated here for the limits that are not negative).
C19_PlainTextTruncated ==
    (Done /\ mimeType \in OCR_TEXT_MIME_TYPES /\ GivenMaxSize >= 0
        /\ fileBytes.size > GivenMaxSize) =>
        /\ result.status = "ok"
        /\ result.wasTruncated
        /\ result.finalSize <= GivenMaxSize + NoticeLength

\* C20: for every input and every maxSizeBytes the result of truncateTextFile
\* has finalSize <= maxSizeBytes + L, L the length of the truncation notice.
C20_TextSizeBound ==
    (Done /\ Route(mimeType) = "text") =>
        /\ result.status = "ok"
        /\ result.finalSize <= GivenMaxSize + NoticeLength

\* the indices (from 0) of the window of C21 that hold a newline, a carriage
\* return or a space
BreakIndices(data, M) ==
    {i \in Max(0, M - 1024)..(M - 1) : i < Len(data) /\ data[i + 1] \in {10, 13, 32}}

\* the cut of C21: past the greatest such index, or M when there is none
CutPoint(data, M) ==
    IF BreakIndices(data, M) = {} THEN M
    ELSE (CHOOSE i \in BreakIndices(data, M) : \A j \in BreakIndices(data, M) : j <= i) + 1

\* C21: for an input longer than maxSizeBytes = M, truncateTextFile returns
\* input[0..c) followed by the notice, c = i + 1 for the greatest index i of
\* [max(0, M - 1024), M - 1] holding a newline, carriage return or space, and
\* c = M when the window holds none.
C21_TextCutPoint ==
    (Done /\ Route(mimeType) = "text" /\ fileBytes.size > GivenMaxSize) =>
        result.bytes
            = BuiltBytes(SubSeq(fileBytes.data, 1, CutPoint(fileBytes.data, GivenMaxSize))
                             \o truncationNote)

(***************************************************************************)
(* The result of a call as a function of its options, to compare calls     *)
(* that differ in maxPages.                                                *)
(***************************************************************************)
\* the while loop of the three searches: bestBytes / bestResult at its exit
RECURSIVE SearchBest(_, _, _, _)
SearchBest(lo, hi, bestSoFar, maxSizeBytes) ==
    IF lo > hi THEN bestSoFar
    ELSE LET mid == Mid(lo, hi)
         IN  IF RebuildSize(mid) <= maxSizeBytes
             THEN SearchBest(mid + 1, hi, <<mid>>, maxSizeBytes)
             ELSE SearchBest(lo, mid - 1, bestSoFar, maxSizeBytes)

\* what truncateFile returns for the document of the call with these options
CallResult(maxPages, maxSizeBytes, paragraphsPerPage) ==
    LET total == fileBytes.totalUnits
        size == fileBytes.size
        budget == IF mimeType = DocxMime THEN DocxBudget(maxPages, paragraphsPerPage)
                  ELSE maxPages
        found == SearchBest(1, Min(total, budget), <<>>, maxSizeBytes)
    IN  IF mimeType = DocxMime /\ ~fileBytes.primary THEN InvalidDocx
        ELSE IF total <= budget /\ size <= maxSizeBytes
        THEN Returned(InputBytes, FALSE, size, size)
        ELSE IF found # <<>>
        THEN Returned(RebuiltBytes(found[1]), TRUE, size, RebuildSize(found[1]))
        ELSE IF mimeType \in PDF_MIME_TYPES /\ total = 0 THEN Thrown("TypeError", 0, 0, "")
        ELSE Returned(RebuiltBytes(1), TRUE, size, RebuildSize(1))

\* the same call with maxPages = 1
ResultWithOnePage == CallResult(1, GivenMaxSize, options.paragraphsPerPage)

\* C22: for PDF, DOCX and PPTX a call with maxPages <= 0 fails with an error or
\* returns the bytes and the wasTruncated of the same call with maxPages = 1.
C22_NonPositiveMaxPages ==
    (Done /\ IsUnitFormat /\ GivenMaxPages <= 0) =>
        \/ result.status = "error"
        \/ /\ result.bytes = ResultWithOnePage.bytes
           /\ result.wasTruncated = ResultWithOnePage.wasTruncated

\* C23: for PDF, DOCX and PPTX and every maxPages, a document of exactly one
\* unit whose size is within maxSizeBytes is returned as it came, with
\* wasTruncated = false.
C23_SingleUnitUnchanged ==
    (Done /\ IsUnitFormat /\ UnitCountKnown /\ fileBytes.totalUnits = 1
        /\ fileBytes.size <= GivenMaxSize) =>
        /\ result.status = "ok"
        /\ result.bytes = InputBytes
        /\ result.wasTruncated = FALSE

\* the unit budget of C24: maxPages * paragraphsPerPage paragraphs, 15 per page
\* when the option is absent; maxPages slides
ClaimedBudget ==
    IF mimeType = DocxMime
    THEN GivenMaxPages * (IF options.paragraphsPerPage = <<>> THEN 15
                          ELSE options.paragraphsPerPage[1])
    ELSE GivenMaxPages

\* C24: a DOCX is returned unchanged iff its paragraph count is within
\* maxPages * paragraphsPerPage (15 by default) and its size within
\* maxSizeBytes, and otherwise the result has at most min(totalParagraphs,
\* budget) paragraphs; for PPTX the same with a budget of maxPages slides.
C24_ParagraphBudget ==
    (Done /\ mimeType \in {DocxMime, PptxMime} /\ UnitCountKnown) =>
        LET within == /\ fileBytes.totalUnits <= ClaimedBudget
                      /\ fileBytes.size <= GivenMaxSize
        IN  /\ result.status = "ok"
            /\ (result.bytes = InputBytes) <=> within
            /\ (result.wasTruncated = FALSE) <=> within
            /\ ~within => UnitsOf(result.bytes) <= Min(fileBytes.totalUnits, ClaimedBudget)

(***************************************************************************)
(* Termination: a call runs on its own promise chain, and every awaited    *)
(* step (a load, a rebuild, a save) settles, so an enabled step of the     *)
(* call is eventually taken.                                               *)
(***************************************************************************)
InitSearch ==
    /\ mimeType \in {"application/pdf", PptxMime, DocxMime}
    /\ fileBytes \in UnitDocs
    /\ options \in [maxPages : {<<v>> : v \in 0..MaxUnits},
                    maxSizeBytes : {<<v>> : v \in 1..MaxSize},
                    paragraphsPerPage : IF mimeType = DocxMime THEN {<<>>, <<1>>}
                                        ELSE {<<>>}]
    /\ pc = "call"
    /\ low = 0
    /\ high = 0
    /\ best = <<>>
    /\ rebuilds = <<>>
    /\ result = NoResult
    /\ zip = NoZip
    /\ maxArg = 0
    /\ outZip = NoZip
    /\ NoStream

NextSearch ==
    \/ TruncatePdfStart
    \/ TruncatePdfLoop
    \/ TruncatePdfFinish
    \/ TruncatePptxStart
    \/ TruncatePptxLoop
    \/ TruncatePptxFinish
    \/ TruncateDocxStart
    \/ TruncateDocxLoop
    \/ TruncateDocxFinish

SpecLive == InitSearch /\ [][NextSearch]_vars /\ WF_vars(NextSearch)

InLoop == pc \in {"pdf_loop", "pptx_loop", "docx_loop"}

\* floor(log2(n)) + 1 for n >= 1: the number of binary digits of n
RECURSIVE BitLength(_)
BitLength(n) == IF n <= 0 THEN 0 ELSE 1 + BitLength(n \div 2)

LoopRebuilds == Cardinality({i \in 1..Len(rebuilds) : rebuilds[i].from = "loop"})
FallbackRebuilds == Cardinality({i \in 1..Len(rebuilds) : rebuilds[i].from = "fallback"})

RebuildBound ==
    (IsUnitFormat /\ Min(fileBytes.totalUnits, UnitBudget) >= 1) =>
        /\ LoopRebuilds <= BitLength(Min(fileBytes.totalUnits, UnitBudget))
        /\ FallbackRebuilds <= 1

\* every pass of a loop shrinks the range [low, high] that is left
RangeShrinks == (InLoop /\ pc' = pc) => (high' - low' < high - low)

\* C25: each binary search ends, and with H = min(totalUnits, unit budget) >= 1
\* it rebuilds at most floor(log2(H)) + 1 times in the loop and at most once
\* more for the k = 1 fallback.
C25_SearchTerminates ==
    /\ []RebuildBound
    /\ [][RangeShrinks]_vars
    /\ <>Done

C25_Witness ==
    /\ Done /\ SlowPath
    /\ Min(fileBytes.totalUnits, UnitBudget) = 3
    /\ LoopRebuilds = 2
    /\ FallbackRebuilds = 1

(***************************************************************************)
(* Two calls of truncateFile on the same byte array, for DOCX and PPTX.    *)
(* JavaScript runs one step at a time and a call yields at each await: the *)
(* steps of the two calls interleave at the awaits of the load             *)
(* (JSZip.loadAsync) and of the save (zip.generateAsync).                  *)
(*                                                                         *)
(* In SpecPair each of pc, low, high, best, rebuilds, result and options   *)
(* holds one value per call; fileBytes is the caller's array, shared by    *)
(* the calls; zip holds the package each call has loaded; outZip keeps the *)
(* array as it was handed over.                                            *)
(***************************************************************************)
PairMaxUnits == 2
PairMaxSize == 2

Calls == {1, 2}

\* a slip in the load: the package is built on the caller's array itself
BufferFromShared(bytes) == [shared |-> TRUE, content |-> bytes]

\* Buffer.from(fileBytes): a copy of the bytes, which the edits of the package
\* cannot reach
BufferFrom(bytes) == [shared |-> FALSE, content |-> bytes]

\* the package after the edits of truncatePptxToSlides / truncateDocxToParagraphs
\* and its size once generated
EditedTo(content, k) ==
    LET kept == Min(Max(k, 0), content.totalUnits)
        size == content.rebuilt[Min(Max(k, 1), Len(content.rebuilt))]
    IN  [content EXCEPT !.totalUnits = kept,
                        !.size = size,
                        !.rebuilt = [i \in 1..Max(kept, 1) |-> content.rebuilt[i]]]

PairBudget(c) ==
    IF mimeType = DocxMime
    THEN DocxBudget(maxPagesOf(options[c]), options[c].paragraphsPerPage)
    ELSE maxPagesOf(options[c])

\* the fast path, or the start of the search
PairStart(c) ==
    /\ pc[c] = "call"
    /\ IF /\ fileBytes.totalUnits <= PairBudget(c)
          /\ fileBytes.size <= maxSizeBytesOf(options[c])
       THEN /\ result' = [result EXCEPT ![c] =
                              Returned(InputBytes, FALSE, fileBytes.size, fileBytes.size)]
            /\ pc' = [pc EXCEPT ![c] = "done"]
            /\ UNCHANGED <<low, high, best>>
       ELSE /\ low' = [low EXCEPT ![c] = 1]
            /\ high' = [high EXCEPT ![c] = Min(fileBytes.totalUnits, PairBudget(c))]
            /\ best' = [best EXCEPT ![c] = <<>>]
            /\ pc' = [pc EXCEPT ![c] = "loop"]
            /\ UNCHANGED result
    /\ UNCHANGED <<fileBytes, mimeType, options, rebuilds, zip, maxArg, outZip, streamVars>>

\* truncate...To...(fileBytes, k) up to its first await: the package is loaded
PairLoad(c) ==
    /\ pc[c] = "loop"
    /\ \/ low[c] <= high[c]
       \/ best[c] = <<>>
    /\ zip' = [zip EXCEPT ![c] = BufferFrom(fileBytes)]
    /\ pc' = [pc EXCEPT ![c] = IF low[c] <= high[c] THEN "edit" ELSE "fallback"]
    /\ UNCHANGED <<fileBytes, mimeType, options, low, high, best, rebuilds, result,
                   maxArg, outZip, streamVars>>

\* the edits of the loaded package, its save, and the test of the candidate
PairRebuild(c) ==
    /\ pc[c] = "edit"
    /\ LET mid == Mid(low[c], high[c])
           edited == EditedTo(IF zip[c].shared THEN fileBytes ELSE zip[c].content, mid)
       IN  /\ rebuilds' = [rebuilds EXCEPT ![c] =
                               Append(@, [k |-> mid, from |-> "loop", size |-> edited.size,
                                          source |-> zip[c].content])]
           /\ fileBytes' = IF zip[c].shared THEN edited ELSE fileBytes
           /\ IF edited.size <= maxSizeBytesOf(options[c])
              THEN /\ best' = [best EXCEPT ![c] = <<[k |-> mid, size |-> edited.size]>>]
                   /\ low' = [low EXCEPT ![c] = mid + 1]
                   /\ UNCHANGED high
              ELSE /\ high' = [high EXCEPT ![c] = mid - 1]
                   /\ UNCHANGED <<low, best>>
    /\ pc' = [pc EXCEPT ![c] = "loop"]
    /\ UNCHANGED <<mimeType, options, result, zip, maxArg, outZip, streamVars>>

\* the k = 1 fallback: the edits of the loaded package, its save, and the return
PairFallback(c) ==
    /\ pc[c] = "fallback"
    /\ LET edited == EditedTo(IF zip[c].shared THEN fileBytes ELSE zip[c].content, 1)
       IN  /\ rebuilds' = [rebuilds EXCEPT ![c] =
                               Append(@, [k |-> 1, from |-> "fallback", size |-> edited.size,
                                          source |-> zip[c].content])]
           /\ fileBytes' = IF zip[c].shared THEN edited ELSE fileBytes
           /\ result' = [result EXCEPT ![c] =
                             Returned(RebuiltBytes(1), TRUE, outZip.size, edited.size)]
    /\ pc' = [pc EXCEPT ![c] = "done"]
    /\ UNCHANGED <<mimeType, options, low, high, best, zip, maxArg, outZip, streamVars>>

\* the return of the best candidate of the search
PairReturn(c) ==
    /\ pc[c] = "loop"
    /\ low[c] > high[c]
    /\ best[c] # <<>>
    /\ result' = [result EXCEPT ![c] =
                      Returned(RebuiltBytes(best[c][1].k), TRUE, outZip.size,
                               best[c][1].size)]
    /\ pc' = [pc EXCEPT ![c] = "done"]
    /\ UNCHANGED <<fileBytes, mimeType, options, low, high, best, rebuilds, zip,
                   maxArg, outZip, streamVars>>

PairDocs ==
    UNION {{[size |-> s, data |-> <<>>, totalUnits |-> n, rebuilt |-> r, primary |-> TRUE] :
               s \in 1..PairMaxSize, r \in [1..n -> 1..PairMaxSize]} :
           n \in 1..PairMaxUnits}

InitPair ==
    /\ mimeType \in {PptxMime, DocxMime}
    /\ fileBytes \in PairDocs
    /\ options \in [Calls -> [maxPages : {<<v>> : v \in 1..PairMaxUnits},
                              maxSizeBytes : {<<v>> : v \in 1..PairMaxSize},
                              paragraphsPerPage : IF mimeType = DocxMime THEN {<<1>>}
                                                  ELSE {<<>>}]]
    /\ pc = [c \in Calls |-> "call"]
    /\ low = [c \in Calls |-> 0]
    /\ high = [c \in Calls |-> 0]
    /\ best = [c \in Calls |-> <<>>]
    /\ rebuilds = [c \in Calls |-> <<>>]
    /\ result = [c \in Calls |-> NoResult]
    /\ zip = [c \in Calls |-> NoZip]
    /\ maxArg = 0
    /\ outZip = fileBytes
    /\ NoStream

NextPair ==
    \E c \in Calls :
        \/ PairStart(c)
        \/ PairLoad(c)
        \/ PairRebuild(c)
        \/ PairFallback(c)
        \/ PairReturn(c)

SpecPair == InitPair /\ [][NextPair]_vars

\* what the call c returns when it runs alone on the array as it was handed over
AloneResult(c) ==
    CallResult(maxPagesOf(options[c]), maxSizeBytesOf(options[c]),
               options[c].paragraphsPerPage)

MaxChunks == 3
MaxChunkLen == 2

ONE_MIB == 1024 * 1024
CONFIG_DEFAULT_MAX_PAGES == 999
MAX_CHUNK_SIZE_BYTES == 4 * ONE_MIB
MAX_STREAMED_FILE_SIZE_BYTES == 2000 * ONE_MIB

\* a slip in the cap: one byte over the cap is let through
ExceedsStreamCapLate(size) == size > MAX_STREAMED_FILE_SIZE_BYTES + 1

\* totalSize > MAX_STREAMED_FILE_SIZE_BYTES
ExceedsStreamCap(size) == size > MAX_STREAMED_FILE_SIZE_BYTES

\* contentType.includes("application/octet-stream") ||
\* contentType.includes("multipart/form-data")
StreamContentType(contentType) ==
    contentType \in {"application/octet-stream", "multipart/form-data; boundary=x"}

\* the header checks, and the reader of the body
StreamStart ==
    /\ pc = "request"
    /\ IF ~StreamContentType(reader.contentType) \/ ~reader.present
       THEN /\ response' = 400
            /\ pc' = "answered"
            /\ UNCHANGED <<reader, chunks, totalSize>>
       ELSE /\ reader' = [reader EXCEPT !.locked = TRUE]
            /\ chunks' = <<>>
            /\ totalSize' = 0
            /\ pc' = "read"
            /\ UNCHANGED response
    /\ UNCHANGED <<fileBytes, mimeType, options, low, high, best, rebuilds, result,
                   zip, maxArg, outZip>>

\* one pass of the read loop: reader.read(), and what follows it up to the
\* next await
StreamRead ==
    /\ pc = "read"
    /\ IF reader.body = <<>>
       THEN IF reader.fails
            THEN \* read() rejects: finally, then the catch of the handler
                 /\ reader' = [reader EXCEPT !.locked = FALSE]
                 /\ response' = 500
                 /\ pc' = "answered"
                 /\ UNCHANGED <<fileBytes, chunks, totalSize>>
            ELSE \* done: finally, the bytes are joined, truncateFile is called
                 /\ reader' = [reader EXCEPT !.locked = FALSE]
                 /\ fileBytes' = [fileBytes EXCEPT !.size = totalSize]
                 /\ pc' = "call"
                 /\ UNCHANGED <<chunks, totalSize, response>>
       ELSE LET value == Head(reader.body)
                size == totalSize + value[1]
            IN  IF value = <<>>
                THEN /\ reader' = [reader EXCEPT !.body = Tail(@)]
                     /\ UNCHANGED <<fileBytes, chunks, totalSize, response, pc>>
                ELSE /\ chunks' = Append(chunks, value[1])
                     /\ totalSize' = size
                     /\ IF ExceedsStreamCap(size)
                        THEN /\ reader' = [reader EXCEPT !.body = Tail(@),
                                                         !.locked = FALSE]
                             /\ response' = 413
                             /\ pc' = "answered"
                        ELSE /\ reader' = [reader EXCEPT !.body = Tail(@)]
                             /\ UNCHANGED <<response, pc>>
                     /\ UNCHANGED fileBytes
    /\ UNCHANGED <<mimeType, options, low, high, best, rebuilds, result,
                   zip, maxArg, outZip>>

\* the answer once truncateFile has returned or thrown
StreamRespond ==
    /\ pc = "done"
    /\ reader.present
    /\ response = 0
    /\ response' = IF result.status = "ok" THEN 200
                   ELSE IF result.error.name = "FileTooLargeError" THEN 413
                   ELSE 500
    /\ pc' = "answered"
    /\ UNCHANGED <<fileBytes, mimeType, options, low, high, best, rebuilds, result,
                   zip, maxArg, outZip, reader, chunks, totalSize>>

\* what reader.read() delivers
FirstReads ==
    {<<>>, <<0>>}
        \cup {<<MAX_STREAMED_FILE_SIZE_BYTES + d>> : d \in (0 - MaxChunkLen)..1}

LaterReads == {<<>>} \cup {<<n>> : n \in 0..MaxChunkLen}

StreamBodies ==
    {<<>>} \cup {<<first>> \o rest : first \in FirstReads,
                                      rest \in SeqsUpTo(LaterReads, MaxChunks)}

InitStream ==
    /\ mimeType \in {"image/png", "application/rtf"}
    /\ fileBytes = [size |-> 0, data |-> <<>>, totalUnits |-> 0, rebuilt |-> <<>>,
                    primary |-> TRUE]
    /\ options \in [maxPages : {<<CONFIG_DEFAULT_MAX_PAGES>>},
                    maxSizeBytes : {<<MAX_CHUNK_SIZE_BYTES>>, <<0>>,
                                    <<MAX_STREAMED_FILE_SIZE_BYTES>>},
                    paragraphsPerPage : {<<>>}]
    /\ pc = "request"
    /\ low = 0
    /\ high = 0
    /\ best = <<>>
    /\ rebuilds = <<>>
    /\ result = NoResult
    /\ zip = NoZip
    /\ maxArg = 0
    /\ outZip = NoZip
    /\ reader \in [contentType : {"application/octet-stream", "application/json"},
                   present : BOOLEAN,
                   body : StreamBodies,
                   fails : BOOLEAN,
                   locked : {FALSE}]
    /\ chunks = <<>>
    /\ totalSize = 0
    /\ response = 0

NextStream ==
    \/ StreamStart
    \/ StreamRead
    \/ ValidateOnly
    \/ StreamRespond

SpecStream == InitStream /\ [][NextStream]_vars

\* the bytes read exceed the cap of the stream
OverCap == totalSize > MAX_STREAMED_FILE_SIZE_BYTES

\* truncateFile has been called
Invoked == pc \in {"call", "done"} \/ result # NoResult

MaxBodyParagraphs == 22
MaxBodyTables == 22

\* a body of paragraphCount paragraphs and tableCount tables, each told apart
\* by a note it refers to
BodyOf(paragraphCount, tableCount, hasSectPr) ==
    [paragraphs |-> [i \in 1..paragraphCount |-> Element({}, {ToString(i)}, {}, {}, {})],
     tables |-> [t \in 1..tableCount |-> Element({}, {}, {ToString(t)}, {}, {})],
     sectPr |-> IF hasSectPr THEN <<Element({"rId7"}, {}, {}, {}, {})>> ELSE <<>>]

RunTruncateDocument ==
    /\ pc = "body"
    /\ \E maxParagraphs \in 1..(MaxBodyParagraphs + 1) :
          /\ maxArg' = maxParagraphs
          /\ outZip' = [kind |-> "body",
                        document |-> truncateDocument(zip.document, maxParagraphs)]
    /\ pc' = "truncated"
    /\ UNCHANGED <<fileBytes, mimeType, options, low, high, best, rebuilds, result, zip,
                   streamVars>>

InitBody ==
    /\ \E paragraphCount \in 0..MaxBodyParagraphs, tableCount \in 0..MaxBodyTables,
          hasSectPr \in BOOLEAN :
          zip = [kind |-> "body",
                 document |-> BodyOf(paragraphCount, tableCount, hasSectPr)]
    /\ fileBytes = [size |-> 0, data |-> <<>>, totalUnits |-> 0, rebuilt |-> <<>>,
                    primary |-> TRUE]
    /\ mimeType = DocxMime
    /\ options = [maxPages |-> <<>>, maxSizeBytes |-> <<>>, paragraphsPerPage |-> <<>>]
    /\ pc = "body"
    /\ low = 0
    /\ high = 0
    /\ best = <<>>
    /\ rebuilds = <<>>
    /\ result = NoResult
    /\ maxArg = 0
    /\ outZip = NoZip
    /\ NoStream

NextBody == RunTruncateDocument

SpecBody == InitBody /\ [][NextBody]_vars

\* C28: with T body tables, P body paragraphs and k paragraphs asked for, the
\* tables kept are the first floor(T * k / P) when k < P; all tables and all
\* paragraphs are kept when k >= P; and the section properties of the body
\* are in the output as they were.
C28_TablesKept ==
    pc = "truncated" =>
        LET before == zip.document
            after == outZip.document
            T == Len(before.tables)
            P == Len(before.paragraphs)
            k == maxArg
        IN  /\ k < P => after.tables = SubSeq(before.tables, 1, (T * k) \div P)
            /\ k >= P => /\ after.tables = before.tables
                         /\ after.paragraphs = before.paragraphs
            /\ before.sectPr # <<>> => after.sectPr = before.sectPr

\* the always-required kinds of relationship
RequiredKinds ==
    {"styles", "settings", "webSettings", "fontTable", "theme", "numbering",
     "footnotes", "endnotes", "comments"}

\* the relationships of document.xml.rels that come out of the truncation
Survives(r) == r \in Range(RelsAt(outZip, docRelsPath))

\* C29: a relationship of word/_rels/document.xml.rels survives iff its ID is
\* referenced in the truncated document or its type is an always-required
\* kind; the targets recorded for removal are those of the other relationships
\* that are not URLs outside the package; and every deleted part is the target
\* of such a relationship.
C29_RelationshipsPruned ==
    (Rebuilt /\ zip.kind = "docx") =>
        LET relationships == Range(RelsAt(zip, docRelsPath))
            referenced == collectRelationshipIds(outZip.document)
            dropped == {r \in relationships : ~Survives(r)}
        IN  /\ \A r \in relationships :
                   Survives(r) <=> (r.Id \in referenced \/ r.Type \in RequiredKinds)
            /\ removedTargetsOf(RelsAt(zip, docRelsPath), referenced)
                   = {normalizeTarget(r.Target) :
                         r \in {x \in dropped : IsInternalTarget(x.Target)}}
            /\ \A f \in zip.files \ outZip.files :
                   \E r \in dropped :
                       /\ IsInternalTarget(r.Target)
                       /\ TargetEntry(docRelsPath, r.Target) = f

\* the candidates of the loop that fit maxSizeBytes
FittingCandidates == {k \in LoopCandidates : RebuildSize(k) <= GivenMaxSize}

\* the result was taken from the search: no fallback was built
FromSearch == Succeeded /\ SlowPath /\ FallbackRebuilds = 0

\* C30: whatever the rebuilt sizes, monotone in k or not, every candidate of a
\* search lies in 1..min(totalUnits, unit budget); a result taken from the
\* search is within maxSizeBytes and is the rebuild of the largest fitting
\* candidate the loop built; and a result over maxSizeBytes comes from the
\* k = 1 fallback.
C30_SearchWithoutMonotonicity ==
    IsUnitFormat =>
        /\ \A k \in LoopCandidates : 1 <= k /\ k <= Min(fileBytes.totalUnits, UnitBudget)
        /\ FromSearch =>
               /\ result.finalSize <= GivenMaxSize
               /\ FittingCandidates # {}
               /\ \E k \in FittingCandidates :
                      /\ \A j \in FittingCandidates : j <= k
                      /\ result.bytes = RebuiltBytes(k)
                      /\ result.finalSize = RebuildSize(k)
        /\ (Succeeded /\ result.finalSize > GivenMaxSize) =>
               /\ FallbackRebuilds = 1
               /\ result.bytes = RebuiltBytes(1)

\* sizes that fall and rise again: the loop takes 2 units although 1 unit does
\* not fit
C30_Witness ==
    /\ FromSearch
    /\ mimeType = DocxMime
    /\ ~SizeNonDecreasing
    /\ RebuildSize(1) > GivenMaxSize
    /\ LoopCandidates = {2, 3}
    /\ result.bytes = RebuiltBytes(2)

====
